---- MODULE Spec2Model ----
(***************************************************************************)
(* A model of scorers.py of compare-mt: the BLEU scorer's cached           *)
(* sufficient statistics (cache_stats, score_cached_corpus), the corpus    *)
(* scoring loops of the sentence-BLEU, RIBES and length-ratio scorers,     *)
(* RIBES's Kendall's tau distance and the scorer factory.                  *)
(*                                                                         *)
(* Numbers.  Python's "/" is true division and the scores are reals built  *)
(* from exp and log.  A BLEU score  bp * exp(sum_i w_i*log p_i)  is kept   *)
(* exactly, as the record                                                  *)
(*     [zero, bpExp, geo]                                                  *)
(* where bp = 0 if zero and bp = exp(bpExp) otherwise (bpExp a rational    *)
(* <<n, d>> in lowest terms), and geo is the rational                      *)
(* prod_i p_i^(a_i) for the weights w_i = a_i / WeightUnit, that is        *)
(* exp(sum_i w_i*log p_i) raised to the power WeightUnit.  Two scores are  *)
(* equal as reals exactly when their records are equal: exp of a nonzero   *)
(* rational is transcendental and a root of a rational is algebraic.       *)
(***************************************************************************)
EXTENDS Integers, Sequences, FiniteSets, TLC

\* Bounds of the model.  Spec enumerates every pair of aligned corpora and
\* every sequence of calls within the first three, the other specifications
\* within the ones that follow.
MaxCorpus == 1      \* sentences in a corpus
MaxWords == 2       \* tokens in a corpus (all its sentences together)
MaxIds == 2         \* sentence ids in one score_cached_corpus call
MaxLines == 2       \* sentences in a corpus (SpecSelf, SpecCorpus)
MaxLineLen == 2     \* tokens in a sentence (SpecSelf, SpecCorpus)
MaxAlign == 4       \* length of an alignment (SpecRibes)
MaxPos == 2         \* largest reference position in an alignment
MaxCalls == 2       \* calls of the factory (SpecFactory)

\* Weights are counted in units of 1/WeightUnit: <<2, 2>> is (0.5, 0.5).
WeightUnit == 4
WeightVectors == {<<4>>, <<2, 2>>, <<1, 3>>}

Tokens == {"a", "A"}

None == "None"

----------------------------------------------------------------------------
(* Helpers: sequences and rationals *)

Min(a, b) == IF a <= b THEN a ELSE b
Max(a, b) == IF a >= b THEN a ELSE b

SeqsUpTo(S, n) == UNION {[1..k -> S] : k \in 0..n}

RECURSIVE SumSeq(_)
SumSeq(s) == IF s = <<>> THEN 0 ELSE Head(s) + SumSeq(Tail(s))

RECURSIVE Gcd(_, _)
Gcd(a, b) == IF b = 0 THEN a ELSE Gcd(b, a % b)

Abs(a) == IF a < 0 THEN -a ELSE a

\* The rational n/d (d > 0) in lowest terms.
Frac(n, d) == LET g == Gcd(Abs(n), d) IN <<n \div g, d \div g>>

FracMul(p, q) == Frac(p[1] * q[1], p[2] * q[2])

RECURSIVE FracPow(_, _)
FracPow(p, k) == IF k = 0 THEN <<1, 1>> ELSE FracMul(p, FracPow(p, k - 1))

----------------------------------------------------------------------------
(* The external collaborators *)

\* corpus_utils.lower on one token, one sentence, one corpus.
LowerToken(t) == IF t = "A" THEN "a" ELSE t
LowerSent(sent) == [i \in DOMAIN sent |-> LowerToken(sent[i])]
lower(corpus) == [s \in DOMAIN corpus |-> LowerSent(corpus[s])]

\* ngram_utils.sent_ngrams_list: the sliding window of width n.
sent_ngrams_list(sent, n) ==
  IF Len(sent) < n THEN <<>>
  ELSE [i \in 1..(Len(sent) - n + 1) |-> SubSeq(sent, i, i + n - 1)]

----------------------------------------------------------------------------
(* collections.Counter *)

\* Counter(list): counts built by one pass over the list.
RECURSIVE Counter(_)
Counter(list) ==
  IF list = <<>> THEN <<>>
  ELSE LET c == Counter(Tail(list))
           g == Head(list)
       IN IF g \in DOMAIN c
          THEN [c EXCEPT ![g] = @ + 1]
          ELSE [k \in DOMAIN c \cup {g} |-> IF k = g THEN 1 ELSE c[k]]

\* c[key] of a Counter: 0 for a missing key.
CounterGet(c, key) == IF key \in DOMAIN c THEN c[key] ELSE 0

----------------------------------------------------------------------------
(* BleuScorer *)

\* A faulty variant of Clipped: the reference count, unclipped.
Unclipped(o_cnt, r_cnt) == r_cnt

\* "num += min(o_cnt, ref_cnt[ngram])": what one output n-gram adds to num.
Clipped(o_cnt, r_cnt) == Min(o_cnt, r_cnt)

\* A faulty variant of FlooredDenom: no floor.
Unfloored(denom) == denom

\* "denom = max(1, denom)".
FlooredDenom(denom) == Max(1, denom)

\* The loop "for ngram, o_cnt in out_cnt.items()" over the keys left.
RECURSIVE PrecisionLoop(_, _, _)
PrecisionLoop(keys, out_cnt, ref_cnt) ==
  IF keys = {} THEN <<0, 0>>
  ELSE LET ngram == CHOOSE k \in keys : TRUE
           rest == PrecisionLoop(keys \ {ngram}, out_cnt, ref_cnt)
           o_cnt == out_cnt[ngram]
       IN <<rest[1] + Clipped(o_cnt, CounterGet(ref_cnt, ngram)),
            rest[2] + o_cnt>>

\* _precision(ref, out, n): <<num, denom>>.
_precision(r, o, n) ==
  LET out_cnt == Counter(sent_ngrams_list(o, n))
      ref_cnt == Counter(sent_ngrams_list(r, n))
      sums == PrecisionLoop(DOMAIN out_cnt, out_cnt, ref_cnt)
  IN <<sums[1], FlooredDenom(sums[2])>>

\* zip(ref, out) stops at the shorter corpus.
ZipLen(r, o) == Min(Len(r), Len(o))

\* cache_stats(ref, out) of a scorer with the given configuration:
\* <<cached_ref_len, cached_out_len, cached_prec>>, entry s + 1 for sentence
\* id s.
cache_stats(w, ci, r0, o0) ==
  LET r == IF ci THEN lower(r0) ELSE r0
      o == IF ci THEN lower(o0) ELSE o0
      N == ZipLen(r, o)
  IN << [s \in 1..N |-> Len(r[s])],
        [s \in 1..N |-> Len(o[s])],
        [s \in 1..N |-> [n \in 1..Len(w) |-> _precision(r[s], o[s], n)]] >>

\* A faulty variant of NewCounters: the accumulators are kept on the scorer
\* and carry the sums of its previous call.
CarriedCounters(last, K) ==
  IF ~last.made
  THEN [num_prec |-> [n \in 1..K |-> 0], denom_prec |-> [n \in 1..K |-> 0],
        ref_len |-> 0, out_len |-> 0]
  ELSE [num_prec |-> last.num_prec, denom_prec |-> last.denom_prec,
        ref_len |-> last.ref_len, out_len |-> last.out_len]

\* The accumulators a score_cached_corpus call starts from ("num_prec =
\* Counter()", "denom_prec = Counter()", "ref_len = 0", "out_len = 0"); a
\* Counter reads 0 at every order.  last is the scorer's previous call.
NewCounters(last, K) ==
  [num_prec |-> [n \in 1..K |-> 0], denom_prec |-> [n \in 1..K |-> 0],
   ref_len |-> 0, out_len |-> 0]

\* The loop "for sent_id in sent_ids".
RECURSIVE Aggregate(_, _, _, _)
Aggregate(sent_ids, cached_stats, K, acc) ==
  IF sent_ids = <<>> THEN acc
  ELSE LET sent_id == Head(sent_ids)
           prec == cached_stats[3][sent_id + 1]
       IN Aggregate(Tail(sent_ids), cached_stats, K,
            [ref_len |-> acc.ref_len + cached_stats[1][sent_id + 1],
             out_len |-> acc.out_len + cached_stats[2][sent_id + 1],
             num_prec |-> [n \in 1..K |-> acc.num_prec[n] + prec[n][1]],
             denom_prec |-> [n \in 1..K |-> acc.denom_prec[n] + prec[n][2]]])

\* The score 0.
ZeroScore == [zero |-> TRUE, bpExp |-> <<0, 1>>, geo |-> <<1, 1>>]

\* The loop "for i, w in enumerate(self.weights, start=1)" from order i on:
\* exp(prec) to the power WeightUnit.  An order with p = 0 adds 0 to prec.
RECURSIVE GeoMean(_, _, _)
GeoMean(w, acc, i) ==
  IF i > Len(w) THEN <<1, 1>>
  ELSE LET rest == GeoMean(w, acc, i + 1)
       IN IF acc.denom_prec[i] # 0 /\ acc.num_prec[i] > 0
          THEN FracMul(FracPow(Frac(acc.num_prec[i], acc.denom_prec[i]), w[i]),
                       rest)
          ELSE rest

\* "min(1, math.exp(1 - ref_len/out_len))" as exp(e): the exponent e.
BrevityExp(ref_len, out_len) ==
  IF out_len - ref_len <= 0 THEN Frac(out_len - ref_len, out_len)
  ELSE <<0, 1>>

\* What score_cached_corpus returns once the statistics are summed.
ResultOf(w, acc) ==
  IF acc.num_prec[1] = 0
  THEN [shape |-> "scalar", score |-> ZeroScore, aux |-> None]
  ELSE [shape |-> "pair",
        score |-> IF acc.out_len # 0
                  THEN [zero |-> FALSE,
                        bpExp |-> BrevityExp(acc.ref_len, acc.out_len),
                        geo |-> GeoMean(w, acc, 1)]
                  ELSE ZeroScore,
        aux |-> None]

\* score_cached_corpus(sent_ids, cached_stats): the call's locals and result.
score_cached_corpus(w, sent_ids, cached_stats, last) ==
  LET acc == Aggregate(sent_ids, cached_stats, Len(w), NewCounters(last, Len(w)))
  IN [made |-> TRUE, sent_ids |-> sent_ids,
      num_prec |-> acc.num_prec, denom_prec |-> acc.denom_prec,
      ref_len |-> acc.ref_len, out_len |-> acc.out_len,
      result |-> ResultOf(w, acc)]

----------------------------------------------------------------------------
(* SentBleuScorer, LengthScorer, RibesScorer: what a call ends in *)

\* No scoring call made yet.
NoOutcome == [op |-> "none", kind |-> "none", pairs |-> 0, divisor |-> 0,
              value |-> <<>>, aux |-> None]

Raised(op, error, pairs) ==
  [op |-> op, kind |-> error, pairs |-> pairs, divisor |-> 0,
   value |-> <<>>, aux |-> None]

\* SentBleuScorer.score_corpus: the sentence scores are nltk's and stay
\* unevaluated; pairs counts the zipped sentence pairs summed into bleu_sum.
SentBleu_score_corpus(r, o) ==
  IF Len(r) = 0
  THEN Raised("SentBleuScorer.score_corpus", "ZeroDivisionError", ZipLen(r, o))
  ELSE [op |-> "SentBleuScorer.score_corpus", kind |-> "returned",
        pairs |-> ZipLen(r, o), divisor |-> Len(r),
        value |-> [s \in 1..ZipLen(r, o) |-> <<r[s], o[s]>>], aux |-> None]

\* LengthScorer.score_corpus: out_words/ref_words and the auxiliary string.
Length_score_corpus(r, o) ==
  LET ref_words == SumSeq([s \in DOMAIN r |-> Len(r[s])])
      out_words == SumSeq([s \in DOMAIN o |-> Len(o[s])])
  IN IF ref_words = 0
     THEN Raised("LengthScorer.score_corpus", "ZeroDivisionError", 0)
     ELSE [op |-> "LengthScorer.score_corpus", kind |-> "returned",
           pairs |-> 0, divisor |-> ref_words,
           value |-> Frac(out_words, ref_words),
           aux |-> <<"ref=", ref_words, ", out=", out_words>>]

\* A faulty variant of Discordant: ties count too.
CountsTies(later, earlier) == later >= earlier

\* The comparison "alignment[j] > alignment[i]" of _kendall_tau_distance.
Discordant(later, earlier) == later > earlier

\* "for j in range(i+1, n)", positions from 1.
RECURSIVE KendallInner(_, _, _)
KendallInner(alignment, i, j) ==
  IF j > Len(alignment) THEN 0
  ELSE (IF Discordant(alignment[j], alignment[i]) THEN 1 ELSE 0)
       + KendallInner(alignment, i, j + 1)

\* "for i in range(n)".
RECURSIVE KendallOuter(_, _)
KendallOuter(alignment, i) ==
  IF i > Len(alignment) THEN 0
  ELSE KendallInner(alignment, i, i + 1) + KendallOuter(alignment, i + 1)

\* RibesScorer._kendall_tau_distance, as a rational.
_kendall_tau_distance(alignment) ==
  LET n == Len(alignment)
  IN IF n <= 1 THEN <<0, 1>>
     ELSE Frac(2 * KendallOuter(alignment, 1), n * n - n)

\* RibesScorer's default alpha and beta.
RibesAlpha == <<1, 4>>
RibesBeta == <<1, 10>>

\* align_utils.ngram_context_align(ref, out): some sequence of reference
\* positions, one per aligned output word.
Alignments(r, o) == SeqsUpTo(0..(Len(r) - 1), Min(Len(r), Len(o)))

\* RibesScorer.score_sentence with the alignment the aligner returned:
\* kt_dis * prec**alpha * bp**beta, kept as its factors.  The division
\* len(alignment)/len(out) comes before the guarded brevity penalty.
Ribes_score_sentence(r, o, alignment) ==
  IF Len(o) = 0
  THEN Raised("RibesScorer.score_sentence", "ZeroDivisionError", 0)
  ELSE [op |-> "RibesScorer.score_sentence", kind |-> "returned",
        pairs |-> 1, divisor |-> Len(o),
        value |-> [kt_dis |-> _kendall_tau_distance(alignment),
                   prec |-> Frac(Len(alignment), Len(o)), alpha |-> RibesAlpha,
                   bpZero |-> (Len(o) = 0),
                   bpExp |-> BrevityExp(Len(r), Len(o)), beta |-> RibesBeta],
        aux |-> None]

\* RibesScorer.score_corpus: aligned[s] is the alignment of sentence pair s.
Ribes_score_corpus(r, o, aligned) ==
  LET n == ZipLen(r, o)
      terms == [s \in 1..n |-> Ribes_score_sentence(r[s], o[s], aligned[s])]
      failed == {s \in 1..n : terms[s].kind # "returned"}
  IN IF failed # {}
     THEN Raised("RibesScorer.score_corpus", "ZeroDivisionError",
                 (CHOOSE s \in failed : \A t \in failed : s <= t) - 1)
     ELSE IF Len(r) = 0
     THEN Raised("RibesScorer.score_corpus", "ZeroDivisionError", n)
     ELSE [op |-> "RibesScorer.score_corpus", kind |-> "returned",
           pairs |-> n, divisor |-> Len(r),
           value |-> [s \in 1..n |-> terms[s].value], aux |-> None]

----------------------------------------------------------------------------
(* create_scorer_from_profile *)

\* The default weights (0.25, 0.25, 0.25, 0.25) in units of 1/WeightUnit.
DefaultWeights == <<1, 1, 1, 1>>

\* The object each constructor builds: its class and its attributes.
NewBleuScorer(ci) ==
  [class |-> "BleuScorer", attrs |-> {"weights", "case_insensitive"},
   weights |-> DefaultWeights, case_insensitive |-> ci,
   order |-> 0, alpha |-> <<0, 1>>, beta |-> <<0, 1>>]

NewSentBleuScorer(ci) ==
  [class |-> "SentBleuScorer", attrs |-> {"case_insensitive"},
   weights |-> <<>>, case_insensitive |-> ci,
   order |-> 0, alpha |-> <<0, 1>>, beta |-> <<0, 1>>]

NewLengthScorer ==
  [class |-> "LengthScorer", attrs |-> {},
   weights |-> <<>>, case_insensitive |-> FALSE,
   order |-> 0, alpha |-> <<0, 1>>, beta |-> <<0, 1>>]

NewRibesScorer(ci) ==
  [class |-> "RibesScorer",
   attrs |-> {"order", "alpha", "beta", "case_insensitive"},
   weights |-> <<>>, case_insensitive |-> ci,
   order |-> 2, alpha |-> RibesAlpha, beta |-> RibesBeta]

Profiles == {"bleu", "sentbleu", "length", "ribes"}

\* The profile strings tried.
ProfileInputs == Profiles \cup {"foo", "BLEU"}

\* The object the matching branch constructs.
Constructed(profile, ci) ==
  CASE profile = "bleu" -> NewBleuScorer(ci)
    [] profile = "sentbleu" -> NewSentBleuScorer(ci)
    [] profile = "length" -> NewLengthScorer
    [] profile = "ribes" -> NewRibesScorer(ci)

\* A faulty variant of NewCell: an equal scorer built earlier is handed out
\* again.
SharedCell(objects, obj) ==
  IF \E a \in DOMAIN objects : objects[a] = obj
  THEN CHOOSE a \in DOMAIN objects : objects[a] = obj
  ELSE Len(objects) + 1

\* Where the returned object lives: a new cell of the heap.
NewCell(objects, obj) == Len(objects) + 1

----------------------------------------------------------------------------
(* State *)

VARIABLES
  weights,           \* BleuScorer.weights, in units of 1/WeightUnit
  case_insensitive,  \* BleuScorer.case_insensitive
  ref, out,          \* the caller's reference and output corpora
  cache,             \* the cache cache_stats returned, <<>> before the call
  call,              \* the last score_cached_corpus call: locals and result
  outcome,           \* the last score_corpus or score_sentence call
  kendall,           \* the last _kendall_tau_distance call and its result
  heap,              \* the scorer objects constructed so far
  returns            \* the create_scorer_from_profile calls made so far

vars == <<weights, case_insensitive, ref, out, cache, call, outcome,
          kendall, heap, returns>>

bleuVars == <<weights, case_insensitive, ref, out, cache, call>>

\* Before any score_cached_corpus call.
NoCall == [made |-> FALSE, sent_ids |-> <<>>, num_prec |-> <<>>,
           denom_prec |-> <<>>, ref_len |-> 0, out_len |-> 0,
           result |-> [shape |-> "none", score |-> ZeroScore, aux |-> None]]

\* The corpora of N sentences with at most MaxWords tokens.
Corpora(N) == {c \in [1..N -> SeqsUpTo(Tokens, MaxWords)] :
                 SumSeq([s \in 1..N |-> Len(c[s])]) <= MaxWords}

\* The corpora of at most MaxLines sentences of at most MaxLineLen tokens.
Lines == UNION {[1..N -> SeqsUpTo(Tokens, MaxLineLen)] : N \in 0..MaxLines}

\* The same with one token only: the corpora SpecCorpus draws from.
PlainLines == UNION {[1..N -> SeqsUpTo({"a"}, MaxLineLen)] : N \in 0..MaxLines}

\* The id sequences over the cache: any order, duplicates allowed.
IdSeqs == SeqsUpTo(0..(Len(cache[1]) - 1), MaxIds)

\* No call made yet on the scorers and the factory.
Idle ==
  /\ outcome = NoOutcome
  /\ kendall = [made |-> FALSE, alignment |-> <<>>, kt_dis |-> <<0, 1>>]
  /\ heap = <<>> /\ returns = <<>>

----------------------------------------------------------------------------
(* Operations *)

\* cache = scorer.cache_stats(ref, out)
CacheStats ==
  /\ cache' = cache_stats(weights, case_insensitive, ref, out)
  /\ call' = NoCall
  /\ UNCHANGED <<weights, case_insensitive, ref, out, outcome, kendall,
                 heap, returns>>

\* scorer.score_cached_corpus(sent_ids, cache)
ScoreCachedCorpus ==
  /\ cache # <<>>
  /\ \E sent_ids \in IdSeqs :
       call' = score_cached_corpus(weights, sent_ids, cache, call)
  /\ UNCHANGED <<weights, case_insensitive, ref, out, cache, outcome,
                 kendall, heap, returns>>

\* SentBleuScorer(case_insensitive).score_corpus(ref, out)
SentBleuScoreCorpus ==
  /\ outcome' = SentBleu_score_corpus(ref, out)
  /\ UNCHANGED <<bleuVars, kendall, heap, returns>>

\* LengthScorer().score_corpus(ref, out)
LengthScoreCorpus ==
  /\ outcome' = Length_score_corpus(ref, out)
  /\ UNCHANGED <<bleuVars, kendall, heap, returns>>

\* RibesScorer(case_insensitive).score_sentence(ref[s], out[s])
RibesScoreSentence ==
  /\ \E s \in 1..ZipLen(ref, out) :
       \E a \in Alignments(ref[s], out[s]) :
         outcome' = Ribes_score_sentence(ref[s], out[s], a)
  /\ UNCHANGED <<bleuVars, kendall, heap, returns>>

\* RibesScorer(case_insensitive).score_corpus(ref, out)
RibesScoreCorpus ==
  /\ \E aligned \in [1..ZipLen(ref, out) ->
                       SeqsUpTo(0..(MaxLineLen - 1), MaxLineLen)] :
       /\ \A s \in 1..ZipLen(ref, out) :
            aligned[s] \in Alignments(ref[s], out[s])
       /\ outcome' = Ribes_score_corpus(ref, out, aligned)
  /\ UNCHANGED <<bleuVars, kendall, heap, returns>>

\* RibesScorer()._kendall_tau_distance(a)
KendallTauDistance ==
  /\ \E a \in SeqsUpTo(0..MaxPos, MaxAlign) :
       kendall' = [made |-> TRUE, alignment |-> a,
                   kt_dis |-> _kendall_tau_distance(a)]
  /\ UNCHANGED <<bleuVars, outcome, heap, returns>>

\* create_scorer_from_profile(profile, ci)
CreateScorerFromProfile ==
  /\ Len(returns) < MaxCalls
  /\ \E profile \in ProfileInputs, ci \in BOOLEAN :
       IF profile \in Profiles
       THEN LET obj == Constructed(profile, ci)
                cell == NewCell(heap, obj)
            IN /\ heap' = [a \in DOMAIN heap \cup {cell} |->
                             IF a = cell THEN obj ELSE heap[a]]
               /\ returns' = Append(returns,
                    [profile |-> profile, ci |-> ci, kind |-> "returned",
                     cell |-> cell, message |-> <<>>])
       ELSE /\ heap' = heap
            /\ returns' = Append(returns,
                 [profile |-> profile, ci |-> ci, kind |-> "ValueError",
                  cell |-> 0,
                  message |-> <<"Invalid profile for scorer ", profile>>])
  /\ UNCHANGED <<bleuVars, outcome, kendall>>

----------------------------------------------------------------------------
(* Spec: the BLEU scorer and its cache, on aligned corpora *)

Init ==
  /\ weights \in WeightVectors
  /\ case_insensitive \in BOOLEAN
  /\ \E N \in 0..MaxCorpus : ref \in Corpora(N) /\ out \in Corpora(N)
  /\ cache = <<>>
  /\ call = NoCall
  /\ Idle

Next == CacheStats \/ ScoreCachedCorpus

Spec == Init /\ [][Next]_vars

(* SpecSelf: the BLEU scorer on a corpus scored against itself *)

InitSelf ==
  /\ weights \in WeightVectors
  /\ case_insensitive \in BOOLEAN
  /\ ref \in Lines
  /\ out = ref
  /\ cache = <<>>
  /\ call = NoCall
  /\ Idle

SpecSelf == InitSelf /\ [][Next]_vars

(* SpecCorpus: every scorer on corpora that need not be aligned *)

InitCorpus ==
  /\ weights = <<2, 2>>
  /\ case_insensitive \in BOOLEAN
  /\ ref \in PlainLines
  /\ out \in PlainLines
  /\ cache = <<>>
  /\ call = NoCall
  /\ Idle

NextCorpus ==
  \/ CacheStats
  \/ SentBleuScoreCorpus
  \/ LengthScoreCorpus
  \/ RibesScoreSentence
  \/ RibesScoreCorpus

SpecCorpus == InitCorpus /\ [][NextCorpus]_vars

(* SpecRibes: Kendall's tau distance; SpecFactory: the factory *)

InitIdle ==
  /\ weights = DefaultWeights
  /\ case_insensitive = FALSE
  /\ ref = <<>> /\ out = <<>>
  /\ cache = <<>>
  /\ call = NoCall
  /\ Idle

NextRibes == KendallTauDistance

SpecRibes == InitIdle /\ [][NextRibes]_vars

NextFactory == CreateScorerFromProfile

SpecFactory == InitIdle /\ [][NextFactory]_vars

----------------------------------------------------------------------------
(* What the claims are stated with, computed apart from the model *)

\* The corpus the scorer works on: case-folded when case_insensitive.
Folded(corpus) ==
  [s \in DOMAIN corpus |->
     [i \in DOMAIN corpus[s] |->
        IF case_insensitive /\ corpus[s][i] = "A" THEN "a" ELSE corpus[s][i]]]

\* The start positions of the n-grams of a sentence.
Starts(sent, n) == 1..(Len(sent) - n + 1)

NGramAt(sent, i, n) == [k \in 1..n |-> sent[i + k - 1]]

\* How often the n-gram g occurs in a sentence.
Occurrences(sent, g) ==
  Cardinality({i \in Starts(sent, Len(g)) : NGramAt(sent, i, Len(g)) = g})

RECURSIVE SumOver(_, _)
SumOver(f, D) ==
  IF D = {} THEN 0
  ELSE LET x == CHOOSE y \in D : TRUE IN f[x] + SumOver(f, D \ {x})

\* The clipped matches of order n of output sentence o against reference r.
ClippedMatches(r, o, n) ==
  LET grams == {NGramAt(o, i, n) : i \in Starts(o, n)}
  IN SumOver([g \in grams |->
                IF Occurrences(o, g) <= Occurrences(r, g)
                THEN Occurrences(o, g) ELSE Occurrences(r, g)], grams)

\* The number of n-grams of a sentence.
NGramCount(sent, n) == Cardinality(Starts(sent, n))

\* The sub-corpus the ids select.
Selected(corpus, ids) == [k \in DOMAIN ids |-> Folded(corpus)[ids[k] + 1]]

\* Corpus BLEU computed directly on aligned corpora r and o: per order the
\* summed clipped matches over the summed output n-gram counts, the weighted
\* geometric mean, the brevity penalty.
TotalMatches(r, o, n) ==
  SumOver([s \in DOMAIN o |-> ClippedMatches(r[s], o[s], n)], DOMAIN o)

TotalNGrams(o, n) == SumOver([s \in DOMAIN o |-> NGramCount(o[s], n)], DOMAIN o)

TotalWords(c) == SumOver([s \in DOMAIN c |-> Len(c[s])], DOMAIN c)

DirectDefined(w, r, o) == \A n \in DOMAIN w : TotalNGrams(o, n) > 0

RECURSIVE DirectGeo(_, _, _, _)
DirectGeo(w, r, o, n) ==
  IF n = 0 THEN <<1, 1>>
  ELSE FracMul(FracPow(Frac(TotalMatches(r, o, n), TotalNGrams(o, n)), w[n]),
               DirectGeo(w, r, o, n - 1))

DirectBleu(w, r, o) ==
  IF \E n \in DOMAIN w : TotalMatches(r, o, n) = 0 THEN ZeroScore
  ELSE [zero |-> FALSE,
        bpExp |-> IF TotalWords(o) >= TotalWords(r) THEN <<0, 1>>
                  ELSE Frac(TotalWords(o) - TotalWords(r), TotalWords(o)),
        geo |-> DirectGeo(w, r, o, Len(w))]

\* The score 1.0.
OneScore == [zero |-> FALSE, bpExp |-> <<0, 1>>, geo |-> <<1, 1>>]

\* A score in [0, 1]: bp = exp(bpExp) <= 1 and the geometric mean in [0, 1].
InUnitInterval(score) ==
  \/ score.zero
  \/ /\ score.bpExp[1] <= 0 /\ score.bpExp[2] > 0
     /\ 0 <= score.geo[1] /\ score.geo[1] <= score.geo[2]

----------------------------------------------------------------------------
(* The claims *)

\* C1: for aligned nonempty corpora and any id sequence, the score of
\* score_cached_corpus(ids, cache_stats(ref, out)) equals corpus BLEU computed
\* directly on the sub-corpus the ids select (wherever that is defined: every
\* order has an output n-gram).
C1_CachedEqualsDirect ==
  (/\ call.made
   /\ Len(ref) > 0
   /\ DirectDefined(weights, Selected(ref, call.sent_ids),
                    Selected(out, call.sent_ids)))
  => call.result.score = DirectBleu(weights, Selected(ref, call.sent_ids),
                                    Selected(out, call.sent_ids))

\* C2: a nonempty corpus of nonempty sentences scored against itself over all
\* its sentence ids has BLEU exactly 1.0.
C2_SelfScoreIsOne ==
  (/\ call.made
   /\ Len(ref) > 0
   /\ out = ref
   /\ \A s \in DOMAIN ref : Len(ref[s]) > 0
   /\ call.sent_ids = [k \in 1..Len(ref) |-> k - 1])
  => /\ call.result.shape = "pair"
     /\ call.result.score = OneScore

\* C3: with len(ref) # len(out), every score_corpus ends in InvalidInputError
\* and cache_stats produces no cache shorter than either corpus.
C3_MismatchRejected ==
  /\ (/\ outcome.op \in {"SentBleuScorer.score_corpus",
                         "LengthScorer.score_corpus",
                         "RibesScorer.score_corpus"}
      /\ Len(ref) # Len(out))
     => outcome.kind = "InvalidInputError"
  /\ cache # <<>> =>
       \A k \in 1..3 : Len(cache[k]) >= Len(ref) /\ Len(cache[k]) >= Len(out)

\* C4: score_cached_corpus returns a pair (score, None) on every path, and
\* the pair with score 0 when the order-1 numerators sum to zero.
C4_AlwaysAPair ==
  call.made =>
    /\ call.result.shape = "pair"
    /\ call.result.aux = None
    /\ call.num_prec[1] = 0 => call.result.score = ZeroScore

\* C5: an empty output sentence gives RibesScorer.score_sentence a defined
\* score and corpora of empty sentences give LengthScorer.score_corpus a
\* defined result: neither raises; nor does the cached BLEU path.
C5_EmptySentencesScore ==
  /\ outcome.op = "RibesScorer.score_sentence" => outcome.kind = "returned"
  /\ (/\ outcome.op = "LengthScorer.score_corpus"
      /\ Len(ref) > 0 /\ Len(out) > 0
      /\ \A s \in DOMAIN ref : ref[s] = <<>>
      /\ \A s \in DOMAIN out : out[s] = <<>>)
     => outcome.kind = "returned"
  /\ call.made => call.result.shape \in {"pair", "scalar"}

\* C6: after every score_cached_corpus call, at every order the aggregated
\* numerator is at most the aggregated denominator, the brevity penalty is in
\* [0, 1] and the score is in [0, 1].
C6_ScoreInUnitInterval ==
  call.made =>
    /\ \A n \in DOMAIN weights :
         0 <= call.num_prec[n] /\ call.num_prec[n] <= call.denom_prec[n]
    /\ InUnitInterval(call.result.score)

\* C6's case: two sentence ids aggregated into a precision strictly between
\* 0 and 1.
C6_Witness ==
  /\ call.made
  /\ Len(call.sent_ids) = 2
  /\ call.result.shape = "pair"
  /\ 0 < call.num_prec[1] /\ call.num_prec[1] < call.denom_prec[1]
  /\ call.result.score.geo # <<1, 1>>

\* C8: for corpora of N sentences and K weights the cache is three sequences
\* of length N: the reference lengths, the output lengths, and per sentence K
\* pairs (num, denom), num the clipped matches of order n, denom =
\* max(1, number of output n-grams), 0 <= num <= denom.
C8_CacheShape ==
  cache # <<>> =>
    /\ Len(cache) = 3
    /\ \A k \in 1..3 : DOMAIN cache[k] = 1..Len(ref)
    /\ \A s \in 1..Len(ref) :
         LET r == Folded(ref)[s]
             o == Folded(out)[s]
         IN /\ cache[1][s] = Len(ref[s])
            /\ cache[2][s] = Len(out[s])
            /\ DOMAIN cache[3][s] = 1..Len(weights)
            /\ \A n \in 1..Len(weights) :
                 LET num == cache[3][s][n][1]
                     denom == cache[3][s][n][2]
                 IN /\ num = ClippedMatches(r, o, n)
                    /\ denom = (IF NGramCount(o, n) >= 1
                                THEN NGramCount(o, n) ELSE 1)
                    /\ 0 <= num /\ num <= denom

\* C8's case: a cache holding a clipped unigram count (1 of 2) and, at order
\* 2, a floored denominator.
C8_Witness ==
  /\ cache # <<>>
  /\ Len(weights) = 2
  /\ \E s \in DOMAIN cache[3] :
       /\ cache[3][s][1] = <<1, 2>>
       /\ Len(ref[s]) = 1
       /\ cache[3][s][2] = <<0, 1>>

\* C10: no cache_stats or score_cached_corpus call changes the scorer's
\* configuration, the caller's corpora or a cache already returned; every
\* score_cached_corpus call sums the statistics of its own ids and nothing
\* else, so a call repeated with the same ids returns the same result.
SumsOfIds(c) ==
  /\ c.ref_len = SumSeq([k \in DOMAIN c.sent_ids |-> cache[1][c.sent_ids[k] + 1]])
  /\ c.out_len = SumSeq([k \in DOMAIN c.sent_ids |-> cache[2][c.sent_ids[k] + 1]])
  /\ \A n \in DOMAIN weights :
       /\ c.num_prec[n] =
            SumSeq([k \in DOMAIN c.sent_ids |-> cache[3][c.sent_ids[k] + 1][n][1]])
       /\ c.denom_prec[n] =
            SumSeq([k \in DOMAIN c.sent_ids |-> cache[3][c.sent_ids[k] + 1][n][2]])

C10_Step ==
  /\ weights' = weights
  /\ case_insensitive' = case_insensitive
  /\ ref' = ref
  /\ out' = out
  /\ cache # <<>> => cache' = cache
  /\ call'.made => SumsOfIds(call')
  /\ (call.made /\ call'.made /\ call'.sent_ids = call.sent_ids)
       => call'.result = call.result

C10_CallsLeaveNoTrace == [][C10_Step]_vars

\* C10's case: a call that aggregated the same sentence twice.
C10_Witness ==
  /\ call.made
  /\ call.sent_ids = <<0, 0>>
  /\ call.ref_len > 0 /\ call.out_len > 0
  /\ call.result.shape = "pair"

----------------------------------------------------------------------------
(* The factory and Kendall's tau *)

ExpectedClass ==
  "bleu" :> "BleuScorer" @@ "sentbleu" :> "SentBleuScorer"
  @@ "length" :> "LengthScorer" @@ "ribes" :> "RibesScorer"

\* The error the factory's failure is reported as.
InvalidProfileError == "ValueError"

\* The scorer has its variant's default parameters.
HasDefaults(obj) ==
  /\ obj.class = "BleuScorer" =>
       obj.attrs = {"weights", "case_insensitive"}
       /\ obj.weights = <<1, 1, 1, 1>>
  /\ obj.class = "SentBleuScorer" => obj.attrs = {"case_insensitive"}
  /\ obj.class = "RibesScorer" =>
       obj.attrs = {"order", "alpha", "beta", "case_insensitive"}
       /\ obj.order = 2 /\ obj.alpha = <<1, 4>> /\ obj.beta = <<1, 10>>

\* Call i did what the claim says, up to the case-insensitivity flag.
FactoryCallOk(i) ==
  LET c == returns[i]
  IN IF c.profile \in DOMAIN ExpectedClass
     THEN /\ c.kind = "returned"
          /\ c.cell \in DOMAIN heap
          /\ heap[c.cell].class = ExpectedClass[c.profile]
          /\ HasDefaults(heap[c.cell])
          /\ \A j \in DOMAIN returns :
               (j # i /\ returns[j].kind = "returned") => returns[j].cell # c.cell
     ELSE /\ c.kind = InvalidProfileError
          /\ \E k \in DOMAIN c.message : c.message[k] = c.profile
          /\ c.cell \notin DOMAIN heap

HasFlag(obj, ci) ==
  "case_insensitive" \in obj.attrs /\ obj.case_insensitive = ci

NoScorerOnFailure ==
  Len(heap) = Cardinality({i \in DOMAIN returns : returns[i].kind = "returned"})

\* C7 as stated: each of the four profiles gets a new scorer of its variant
\* with default parameters and the given case-insensitivity flag; any other
\* string gets no scorer and an InvalidProfileError naming it.
C7_FactoryAsStated ==
  /\ NoScorerOnFailure
  /\ \A i \in DOMAIN returns :
       /\ FactoryCallOk(i)
       /\ returns[i].kind = "returned" =>
            HasFlag(heap[returns[i].cell], returns[i].ci)

\* C7 as amended: the same, but the flag is carried by the BLEU,
\* sentence-BLEU and RIBES scorers only; the length scorer is constructed
\* without it.
C7_Factory ==
  /\ NoScorerOnFailure
  /\ \A i \in DOMAIN returns :
       /\ FactoryCallOk(i)
       /\ (returns[i].kind = "returned" /\ returns[i].profile # "length") =>
            HasFlag(heap[returns[i].cell], returns[i].ci)
       /\ returns[i].profile = "length" =>
            "case_insensitive" \notin heap[returns[i].cell].attrs

\* C7's case: two calls with the same profile and flag, then none left.
C7_Witness ==
  /\ Len(returns) = 2
  /\ returns[1].profile = "ribes" /\ returns[2].profile = "ribes"
  /\ returns[1].ci /\ returns[2].ci
  /\ Len(heap) = 2

\* The pairs i < j with alignment[j] > alignment[i].
GreaterLater(a) ==
  {p \in (DOMAIN a) \X (DOMAIN a) : p[1] < p[2] /\ a[p[2]] > a[p[1]]}

\* A strictly increasing alignment; the empty one orders nothing and does
\* not count.
StrictlyIncreasing(a) == a # <<>> /\ \A i \in 1..(Len(a) - 1) : a[i] < a[i + 1]

KendallValue(a, kt_dis) ==
  LET n == Len(a)
  IN /\ n <= 1 => kt_dis = <<0, 1>>
     /\ n >= 2 => kt_dis = Frac(2 * Cardinality(GreaterLater(a)), n * n - n)
     /\ 0 <= kt_dis[1] /\ kt_dis[1] <= kt_dis[2]
     /\ kt_dis = <<0, 1>> <=> GreaterLater(a) = {}

\* C9 as stated: the distance is 0 for n <= 1 and 2*dis/(n*n-n) for n >= 2,
\* lies in [0, 1], is 1 exactly when the alignment is strictly increasing
\* and 0 exactly when no later element is greater than an earlier one.
C9_KendallAsStated ==
  kendall.made =>
    /\ KendallValue(kendall.alignment, kendall.kt_dis)
    /\ kendall.kt_dis = <<1, 1>> <=> StrictlyIncreasing(kendall.alignment)

\* C9 as amended: the distance is 1 exactly when the alignment has at least
\* two elements and is strictly increasing.
C9_Kendall ==
  kendall.made =>
    /\ KendallValue(kendall.alignment, kendall.kt_dis)
    /\ kendall.kt_dis = <<1, 1>> <=>
         (Len(kendall.alignment) >= 2 /\ StrictlyIncreasing(kendall.alignment))

\* C9's case: four positions with a tie, half of the pairs counted.
C9_Witness ==
  /\ kendall.made
  /\ Len(kendall.alignment) = 4
  /\ \E i \in 1..3 : kendall.alignment[i] = kendall.alignment[i + 1]
  /\ kendall.kt_dis = <<1, 2>>

====
